---- MODULE Spec2Model ----
(***************************************************************************)
(* The audio upload / recording view-controller (App component), its       *)
(* in-flight HTTP requests, the backend collection they act on and the     *)
(* browser's MediaRecorder / object-URL resources.                         *)
(*                                                                         *)
(* Strings that the code inspects (MIME types, record names) are tuples    *)
(* of one-character strings, so that toLowerCase, startsWith, includes,    *)
(* split and trim are computed and not assumed.                            *)
(***************************************************************************)
EXTENDS Integers, Sequences, FiniteSets, TLC

\* ------------------------------------------------------------------ bounds
\* Fetches in flight at the same time.
MaxInFlight == 2
\* Steps the user takes on the upload and list controls in one run: picked
\* files, uploads, refreshes, edits, deletes, dismissals.
MaxOps == 3
\* Uploads the backend accepts in one run (each adds a record with a fresh id).
MaxPosts == 1
\* startRecording invocations in one run.
MaxSessions == 2
\* Non-empty chunks one recorder delivers.
MaxChunks == 1

\* ----------------------------------------------------------- program constants
MAX_FILE_SIZE_MB == 25
MAX_FILE_SIZE_BYTES == MAX_FILE_SIZE_MB * 1024 * 1024

\* null, for the strings (ids, object URLs, recorders, streams, messages).
Nil == "null"

\* null, for a File.
NullFile == [fid |-> Nil, type |-> <<>>, size |-> 0, name |-> <<>>, content |-> <<>>]

\* The names of the records, of the recording sessions (a session names its
\* stream, its recorder, the File and the object URL its onstop makes).
IdNames == <<"id1", "id2", "id3", "id4", "id5", "id6">>
SessionNames == <<"s1", "s2", "s3", "s4">>

\* ------------------------------------------------------------- string helpers
UpperAlpha == <<"A","B","C","D","E","F","G","H","I","J","K","L","M",
                "N","O","P","Q","R","S","T","U","V","W","X","Y","Z">>
LowerAlpha == <<"a","b","c","d","e","f","g","h","i","j","k","l","m",
                "n","o","p","q","r","s","t","u","v","w","x","y","z">>

LowerChar(c) ==
  IF \E i \in 1..26 : UpperAlpha[i] = c
  THEN LowerAlpha[CHOOSE i \in 1..26 : UpperAlpha[i] = c]
  ELSE c

\* String.prototype.toLowerCase
toLowerCase(s) == [i \in 1..Len(s) |-> LowerChar(s[i])]

\* String.prototype.startsWith
startsWith(s, p) == Len(p) <= Len(s) /\ SubSeq(s, 1, Len(p)) = p

\* String.prototype.includes
includes(s, p) ==
  \E k \in 0..(Len(s) - Len(p)) : SubSeq(s, k + 1, k + Len(p)) = p

\* t.split('/')[1]: the text between the first and the second slash.
SplitSlash1(t) ==
  LET slashes == {i \in 1..Len(t) : t[i] = "/"}
      first == CHOOSE i \in slashes : \A j \in slashes : i <= j
      after == {i \in slashes : i > first}
      stop == IF after = {} THEN Len(t) + 1
              ELSE CHOOSE i \in after : \A j \in after : i <= j
  IN SubSeq(t, first + 1, stop - 1)

IsSpace(c) == c \in {" ", "\t"}

\* String.prototype.trim
trim(s) ==
  LET keep == {i \in 1..Len(s) : ~IsSpace(s[i])}
  IN IF keep = {} THEN <<>>
     ELSE LET lo == CHOOSE i \in keep : \A j \in keep : i <= j
              hi == CHOOSE i \in keep : \A j \in keep : i >= j
          IN SubSeq(s, lo, hi)

\* ------------------------------------------------------------ file validation
ALLOWED_AUDIO_TYPES == <<
  <<"a","u","d","i","o","/","w","e","b","m">>,
  <<"a","u","d","i","o","/","m","p","3">>,
  <<"a","u","d","i","o","/","m","p","e","g">>,
  <<"a","u","d","i","o","/","w","a","v">>,
  <<"a","u","d","i","o","/","o","g","g">>,
  <<"a","u","d","i","o","/","m","p","4">>,
  <<"a","u","d","i","o","/","x","-","w","a","v">>,
  <<"a","u","d","i","o","/","f","l","a","c">> >>

AudioPrefix == <<"a","u","d","i","o","/">>

\* The message of a rejected type (the code also quotes the reported type in it).
InvalidTypeMessage == "Invalid file type. Use audio files (e.g. MP3, WAV, WebM)."
TooLargeMessage == "File too large. Max 25 MB."

\* The first test of isValidAudioFile, on the reported type.
IsAllowedType(fileType) ==
  LET type == toLowerCase(fileType)
  IN startsWith(type, AudioPrefix)
     \/ \E k \in 1..Len(ALLOWED_AUDIO_TYPES) :
          includes(type, SplitSlash1(ALLOWED_AUDIO_TYPES[k]))

\* The size test of isValidAudioFile made on whole megabytes, as the message
\* words it ("Max 25 MB").
ExceedsCeilingWholeMb(size) == size \div (1024 * 1024) > MAX_FILE_SIZE_MB

\* The second test of isValidAudioFile, on the size.
ExceedsCeiling(size) == size > MAX_FILE_SIZE_BYTES

\* isValidAudioFile: the type is looked at first, the size only for an
\* accepted type.
isValidAudioFile(file) ==
  IF ~IsAllowedType(file.type)
  THEN [ok |-> FALSE, message |-> InvalidTypeMessage]
  ELSE IF ExceedsCeiling(file.size)
       THEN [ok |-> FALSE, message |-> TooLargeMessage]
       ELSE [ok |-> TRUE, message |-> Nil]

\* ------------------------------------------------------------------- inputs
AudioMpeg == <<"a","u","d","i","o","/","m","p","e","g">>
AudioWavUpper == <<"A","U","D","I","O","/","W","A","V">>
AudioWebm == <<"a","u","d","i","o","/","w","e","b","m">>
AudioOgg == <<"a","u","d","i","o","/","o","g","g">>
VideoWebm == <<"v","i","d","e","o","/","w","e","b","m">>
ApplicationOgg == <<"a","p","p","l","i","c","a","t","i","o","n","/","o","g","g">>
TextPlain == <<"t","e","x","t","/","p","l","a","i","n">>
NoType == <<>>

PickedName == <<"n">>

PickedFile(t, n) == [fid |-> "picked", type |-> t, size |-> n, name |-> PickedName,
                    content |-> <<>>]

\* The files the user picks in the file input. A picked file is never the
\* File object the recorder made, so all of them carry the identity "picked".
PickedFiles == {
  PickedFile(AudioWavUpper, MAX_FILE_SIZE_BYTES),
  PickedFile(ApplicationOgg, MAX_FILE_SIZE_BYTES),
  PickedFile(AudioMpeg, MAX_FILE_SIZE_BYTES + 1),
  PickedFile(VideoWebm, 30 * 1024 * 1024),
  PickedFile(TextPlain, 1),
  PickedFile(TextPlain, 30 * 1024 * 1024),
  PickedFile(NoType, 1) }

\* recorder.mimeType: empty when the browser reports none.
RecorderMimeTypes == { <<>>, AudioOgg }

\* What the user types into the rename input.
TypedNames == { <<>>, <<" ", "\t">>, <<" ", "b", " ">> }

\* The backend's collection when the page loads, newest first.
InitialCollection == <<
  [_id |-> IdNames[2], originalName |-> <<"c">>, size |-> 2048],
  [_id |-> IdNames[1], originalName |-> <<"a">>, size |-> 1536] >>

\* -------------------------------------------------------------------- state
VARIABLES
  uploads,          \* useState<UploadItem[]>
  isLoadingList,    \* useState(true)
  isUploading,      \* useState(false)
  error,            \* useState<string | null>
  isRecording,      \* useState(false)
  recordingUrl,     \* useState<string | null>: an object URL (its number) or Nil
  recordedFile,     \* useState<File | null>
  deletingId,       \* useState<string | null>
  editingId,        \* useState<string | null>
  editingName,      \* useState('')
  mediaRecorderRef, \* useRef<MediaRecorder | null>: a recorder (its session) or Nil
  chunksRef,        \* useRef<BlobPart[]>
  streamRef,        \* useRef<MediaStream | null>: a stream (its session) or Nil
  reqs,             \* the fetches in flight, each with the continuation awaiting it
  db,               \* the backend's collection
  nPosts,           \* uploads the backend has stored
  nOps,             \* steps the user has taken on the upload and list controls
  sessions,         \* the startRecording invocations and the recorders they made
  liveStreams,      \* microphone streams with a track that is not stopped
  liveUrls,         \* object URLs created and not revoked
  supported,        \* 'MediaRecorder' in window
  recorderMime,     \* recorder.mimeType of this browser's recorders
  mounted,          \* the App component is mounted
  lastCall          \* the handler the last step called (with its arguments) or resumed

ctl == <<uploads, isLoadingList, isUploading, error, isRecording, recordingUrl,
         recordedFile, deletingId, editingId, editingName>>
refs == <<mediaRecorderRef, chunksRef, streamRef>>
env == <<reqs, db, nPosts, sessions, liveStreams, liveUrls, supported, recorderMime, mounted>>
vars == <<ctl, refs, env, nOps, lastCall>>

listVars == <<uploads, isLoadingList, deletingId, editingId, editingName>>
recVars == <<isRecording, recordingUrl, recordedFile, mediaRecorderRef, chunksRef,
             streamRef, sessions, liveStreams, liveUrls>>

Slots == 1..MaxInFlight
SessionIds == {SessionNames[i] : i \in 1..MaxSessions}

NoReq == [kind |-> "none", st |-> "free", id |-> Nil, name |-> <<>>, typed |-> <<>>,
          file |-> NullFile, capFile |-> NullFile, capUrl |-> Nil, owner |-> "none",
          res |-> "none", data |-> <<>>, newId |-> Nil]

\* st: where the invocation and its recorder are ("asking" for the microphone,
\* "failed", "recording", "stopping" after recorder.stop(), "ending" after its
\* tracks ended, "inactive" once onstop has run); capUrl: the recordingUrl its
\* onstop handler closes over; got: the chunks its ondataavailable has kept.
NoSession == [st |-> "none", capUrl |-> Nil, got |-> <<>>]

NoCall == [op |-> "none", file |-> NullFile, id |-> Nil, name |-> <<>>, res |-> "none"]

\* lastCall after the response of request r has resumed the handler awaiting it.
Resumed(r) == [op |-> r.kind, file |-> r.file, id |-> r.id, name |-> r.name, res |-> r.res]

\* The ids the backend hands out: those of the initial collection and one
\* per stored upload.
RecordIds == {IdNames[i] : i \in 1..(Len(InitialCollection) + MaxPosts)}
Rows == 1..(Len(InitialCollection) + MaxPosts)

Ids(list) == {list[i]._id : i \in 1..Len(list)}

HasFreeSlot == \E s \in Slots : reqs[s].kind = "none"

\* A step the user takes on the upload and list controls, and any other step
\* (a response, a media callback, the Start and Stop buttons, which MaxSessions
\* bounds).
UserStep == mounted /\ nOps < MaxOps /\ nOps' = nOps + 1
BrowserStep == nOps' = nOps
FreeSlot == CHOOSE s \in Slots : reqs[s].kind = "none" /\ \A t \in Slots : reqs[t].kind = "none" => s <= t

\* fetch(...): the request leaves, the caller awaits the response.
Fetch(r) == [reqs EXCEPT ![FreeSlot] = r]

\* useEffect(() => { void fetchUploads() }, []) has run: the first list request
\* is on its way.
Init ==
  /\ uploads = <<>>
  /\ isLoadingList = TRUE
  /\ isUploading = FALSE
  /\ error = Nil
  /\ isRecording = FALSE
  /\ recordingUrl = Nil
  /\ recordedFile = NullFile
  /\ deletingId = Nil
  /\ editingId = Nil
  /\ editingName = <<>>
  /\ mediaRecorderRef = Nil
  /\ chunksRef = <<>>
  /\ streamRef = Nil
  /\ reqs = [s \in Slots |-> IF s = 1 THEN [NoReq EXCEPT !.kind = "GET", !.st = "sent", !.owner = "ui"]
                             ELSE NoReq]
  /\ db = InitialCollection
  /\ nPosts = 0
  /\ nOps = 0
  /\ sessions = [k \in SessionIds |-> NoSession]
  /\ liveStreams = {}
  /\ liveUrls = {}
  /\ supported \in BOOLEAN
  /\ recorderMime \in RecorderMimeTypes
  /\ mounted = TRUE
  /\ lastCall = NoCall

\* ------------------------------------------------------------------ backend
\* The collaborator behind fetch: a request that was sent is served at some
\* later moment, one request at a time, and its response travels back on its
\* own. Outcomes: "ok"; "errBody", a non-2xx status whose JSON body has an
\* error text; "errStatus", a non-2xx status without one; "throw", fetch
\* rejects (or the body of a 2xx list response is no JSON).
Failures == {"errBody", "errStatus", "throw"}

BackendText == "backend error text"
NetworkText == "network error"

\* POST /api/uploads stores the file as a new record, the newest and so the
\* first of the collection.
StoredRecord(file) ==
  [_id |-> IdNames[Len(InitialCollection) + 1 + nPosts], originalName |-> file.name, size |-> file.size]

\* PATCH /api/uploads/{id} with { originalName }.
Renamed(list, id, name) ==
  [i \in 1..Len(list) |->
     IF list[i]._id = id THEN [list[i] EXCEPT !.originalName = name] ELSE list[i]]

\* DELETE /api/uploads/{id}.
Without(list, id) == SelectSeq(list, LAMBDA u : u._id # id)

ServeFails(s) ==
  /\ BrowserStep
  /\ reqs[s].st = "sent"
  /\ \E f \in Failures : reqs' = [reqs EXCEPT ![s].st = "served", ![s].res = f]
  /\ lastCall' = NoCall
  /\ UNCHANGED <<ctl, refs, db, nPosts, sessions, liveStreams, liveUrls, supported, recorderMime, mounted>>

ServeGet(s) ==
  /\ BrowserStep
  /\ reqs[s].kind = "GET" /\ reqs[s].st = "sent"
  /\ reqs' = [reqs EXCEPT ![s].st = "served", ![s].res = "ok", ![s].data = db]
  /\ lastCall' = NoCall
  /\ UNCHANGED <<ctl, refs, db, nPosts, sessions, liveStreams, liveUrls, supported, recorderMime, mounted>>

ServePost(s) ==
  /\ BrowserStep
  /\ reqs[s].kind = "POST" /\ reqs[s].st = "sent"
  /\ nPosts < MaxPosts
  /\ LET rec == StoredRecord(reqs[s].file)
     IN /\ db' = <<rec>> \o db
        /\ reqs' = [reqs EXCEPT ![s].st = "served", ![s].res = "ok", ![s].newId = rec._id]
  /\ nPosts' = nPosts + 1
  /\ lastCall' = NoCall
  /\ UNCHANGED <<ctl, refs, sessions, liveStreams, liveUrls, supported, recorderMime, mounted>>

ServePatch(s) ==
  /\ BrowserStep
  /\ reqs[s].kind = "PATCH" /\ reqs[s].st = "sent"
  /\ reqs[s].id \in Ids(db)
  /\ db' = Renamed(db, reqs[s].id, reqs[s].name)
  /\ reqs' = [reqs EXCEPT ![s].st = "served", ![s].res = "ok"]
  /\ lastCall' = NoCall
  /\ UNCHANGED <<ctl, refs, nPosts, sessions, liveStreams, liveUrls, supported, recorderMime, mounted>>

ServeDelete(s) ==
  /\ BrowserStep
  /\ reqs[s].kind = "DELETE" /\ reqs[s].st = "sent"
  /\ reqs[s].id \in Ids(db)
  /\ db' = Without(db, reqs[s].id)
  /\ reqs' = [reqs EXCEPT ![s].st = "served", ![s].res = "ok"]
  /\ lastCall' = NoCall
  /\ UNCHANGED <<ctl, refs, nPosts, sessions, liveStreams, liveUrls, supported, recorderMime, mounted>>

\* --------------------------------------------------------- browser resources
\* URL.revokeObjectURL(u), for u that may be null.
Revoke(urls, u) == urls \ {u}

\* streamRef.current?.getTracks().forEach((t) => t.stop())
StopTracks(streams, ref) == streams \ {ref}

\* The cleanup of useEffect(..., [recordingUrl]): React runs it when a render
\* commits another recordingUrl; it holds the recordingUrl of the render that
\* set it up and reads streamRef.current when it runs.
CleanupUrls(urls, old, new) == IF old # new THEN Revoke(urls, old) ELSE urls
CleanupStreams(streams, old, new, ref) ==
  IF old # new THEN StopTracks(streams, ref) ELSE streams

\* --------------------------------------------------------- failure messages
\* The failure message with the backend's text ignored.
FailureMessageStatusOnly(kind, res) ==
  CASE res = "throw" -> NetworkText
    [] kind = "GET" -> "Failed to fetch (500)"
    [] kind = "POST" -> "Upload failed (500)"
    [] kind = "PATCH" -> "Update failed (500)"
    [] kind = "DELETE" -> "Delete failed (500)"

\* data?.error || `... (${res.status})`, or the message of what fetch threw.
FailureMessage(kind, res) ==
  CASE res = "errBody" -> BackendText
    [] res = "throw" -> NetworkText
    [] res = "errStatus" /\ kind = "GET" -> "Failed to fetch (500)"
    [] res = "errStatus" /\ kind = "POST" -> "Upload failed (500)"
    [] res = "errStatus" /\ kind = "PATCH" -> "Update failed (500)"
    [] res = "errStatus" /\ kind = "DELETE" -> "Delete failed (500)"

\* ------------------------------------------------------------ list controller
RowsShown == ~isLoadingList /\ Len(uploads) > 0
RowShown(id) == RowsShown /\ id \in Ids(uploads)

\* fetchUploads up to its await: setIsLoadingList(true), setError(null) and
\* the GET, which takes slot r of the fetches in flight.
FetchUploadsStart(r, req) ==
  /\ isLoadingList' = TRUE
  /\ error' = Nil
  /\ reqs' = [reqs EXCEPT ![r] = req]

\* The Refresh button, disabled while isLoadingList.
ClickRefresh ==
  /\ UserStep
  /\ ~isLoadingList
  /\ HasFreeSlot
  /\ FetchUploadsStart(FreeSlot, [NoReq EXCEPT !.kind = "GET", !.st = "sent", !.owner = "ui"])
  /\ lastCall' = NoCall
  /\ UNCHANGED <<uploads, isUploading, isRecording, recordingUrl, recordedFile,
                 deletingId, editingId, editingName, refs, db, nPosts, sessions,
                 liveStreams, liveUrls, supported, recorderMime, mounted>>

\* fetchUploads, lines 74-79, with the merge a cache-minded change would make.
UploadsAfterListMerged(prev, res, data) ==
  IF res = "ok"
  THEN data \o SelectSeq(prev, LAMBDA u : u._id \notin Ids(data))
  ELSE prev

\* fetchUploads, lines 74-79, with setUploads ahead of the res.ok test.
UploadsAfterListUnchecked(prev, res, data) == data

\* fetchUploads, lines 74-79: setUploads(data) unless something threw.
UploadsAfterList(prev, res, data) == IF res = "ok" THEN data ELSE prev

\* updateName, lines 130-133, with the id test dropped from the map.
UploadsAfterPatchAll(prev, res, id, name, typed) ==
  IF res = "ok"
  THEN [i \in 1..Len(prev) |-> [prev[i] EXCEPT !.originalName = name]]
  ELSE prev

\* updateName, lines 130-133: prev.map(u => u._id === id ? {...u, originalName} : u).
\* name is the trimmed text the request carried, typed the text as passed in.
UploadsAfterPatch(prev, res, id, name, typed) ==
  IF res = "ok" THEN Renamed(prev, id, name) ELSE prev

\* deleteUpload, lines 157-161, removing the row by position.
UploadsAfterDeleteFirst(prev, res, id) ==
  IF res = "ok" /\ Len(prev) > 0 THEN Tail(prev) ELSE prev

\* deleteUpload, lines 157-161: prev.filter(u => u._id !== id).
UploadsAfterDelete(prev, res, id) ==
  IF res = "ok" THEN Without(prev, id) ELSE prev

\* The catch blocks: setError(e.message).
ErrorAfter(kind, res, prev) == IF res = "ok" THEN prev ELSE FailureMessage(kind, res)

\* uploadFile, line 103: recordedFile && file === recordedFile, both as the
\* render that called uploadFile saw them. Files are compared by identity.
UploadedTheRecording(file, capFile) == capFile # NullFile /\ file.fid = capFile.fid

\* The response of a list request: the rest of fetchUploads and, when
\* uploadFile awaits it, the rest of uploadFile (lines 102-116) in the same
\* turn; fetchUploads never throws, so uploadFile goes on after a failed list.
GetResponse(s) ==
  /\ BrowserStep
  /\ mounted
  /\ reqs[s].kind = "GET" /\ reqs[s].st = "served"
  /\ uploads' = UploadsAfterList(uploads, reqs[s].res, reqs[s].data)
  /\ error' = ErrorAfter("GET", reqs[s].res, error)
  /\ isLoadingList' = FALSE
  /\ reqs' = [reqs EXCEPT ![s] = NoReq]
  /\ IF reqs[s].owner = "upload"
     THEN /\ isUploading' = FALSE
          /\ IF UploadedTheRecording(reqs[s].file, reqs[s].capFile)
             THEN /\ recordingUrl' = Nil
                  /\ recordedFile' = NullFile
                  /\ liveUrls' = CleanupUrls(Revoke(liveUrls, reqs[s].capUrl), recordingUrl, Nil)
                  /\ liveStreams' = CleanupStreams(liveStreams, recordingUrl, Nil, streamRef)
             ELSE UNCHANGED <<recordingUrl, recordedFile, liveUrls, liveStreams>>
     ELSE UNCHANGED <<isUploading, recordingUrl, recordedFile, liveUrls, liveStreams>>
  /\ lastCall' = Resumed(reqs[s])
  /\ UNCHANGED <<isRecording, deletingId, editingId, editingName, refs, db, nPosts,
                 sessions, supported, recorderMime, mounted>>

\* uploadFile, lines 99-101 and 112-116, with the list refresh not awaited:
\* the finally block runs as soon as the refresh has been started.
PostResponseNotAwaiting(s) ==
  /\ BrowserStep
  /\ mounted
  /\ reqs[s].kind = "POST" /\ reqs[s].st = "served"
  /\ IF reqs[s].res = "ok"
     THEN /\ FetchUploadsStart(s, [reqs[s] EXCEPT !.kind = "GET", !.st = "sent",
                                                  !.owner = "upload", !.res = "none"])
          /\ isUploading' = FALSE
     ELSE /\ error' = FailureMessage("POST", reqs[s].res)
          /\ isUploading' = FALSE
          /\ reqs' = [reqs EXCEPT ![s] = NoReq]
          /\ UNCHANGED isLoadingList
  /\ lastCall' = Resumed(reqs[s])
  /\ UNCHANGED <<uploads, isRecording, recordingUrl, recordedFile, deletingId,
                 editingId, editingName, refs, db, nPosts, sessions, liveStreams,
                 liveUrls, supported, recorderMime, mounted>>

\* The response of the upload POST: on success uploadFile calls fetchUploads
\* and awaits it (isUploading stays set); otherwise catch and finally.
PostResponse(s) ==
  /\ BrowserStep
  /\ mounted
  /\ reqs[s].kind = "POST" /\ reqs[s].st = "served"
  /\ IF reqs[s].res = "ok"
     THEN /\ FetchUploadsStart(s, [reqs[s] EXCEPT !.kind = "GET", !.st = "sent",
                                                  !.owner = "upload", !.res = "none"])
          /\ UNCHANGED isUploading
     ELSE /\ error' = FailureMessage("POST", reqs[s].res)
          /\ isUploading' = FALSE
          /\ reqs' = [reqs EXCEPT ![s] = NoReq]
          /\ UNCHANGED isLoadingList
  /\ lastCall' = Resumed(reqs[s])
  /\ UNCHANGED <<uploads, isRecording, recordingUrl, recordedFile, deletingId,
                 editingId, editingName, refs, db, nPosts, sessions, liveStreams,
                 liveUrls, supported, recorderMime, mounted>>

\* The response of a rename: patch the row and close the form, or setError.
PatchResponse(s) ==
  /\ BrowserStep
  /\ mounted
  /\ reqs[s].kind = "PATCH" /\ reqs[s].st = "served"
  /\ uploads' = UploadsAfterPatch(uploads, reqs[s].res, reqs[s].id, reqs[s].name,
                                  reqs[s].typed)
  /\ error' = ErrorAfter("PATCH", reqs[s].res, error)
  /\ IF reqs[s].res = "ok"
     THEN editingId' = Nil /\ editingName' = <<>>
     ELSE UNCHANGED <<editingId, editingName>>
  /\ reqs' = [reqs EXCEPT ![s] = NoReq]
  /\ lastCall' = Resumed(reqs[s])
  /\ UNCHANGED <<isLoadingList, isUploading, isRecording, recordingUrl, recordedFile,
                 deletingId, refs, db, nPosts, sessions, liveStreams, liveUrls,
                 supported, recorderMime, mounted>>

\* The response of a delete: drop the row or setError; finally setDeletingId(null).
DeleteResponse(s) ==
  /\ BrowserStep
  /\ mounted
  /\ reqs[s].kind = "DELETE" /\ reqs[s].st = "served"
  /\ uploads' = UploadsAfterDelete(uploads, reqs[s].res, reqs[s].id)
  /\ error' = ErrorAfter("DELETE", reqs[s].res, error)
  /\ deletingId' = Nil
  /\ reqs' = [reqs EXCEPT ![s] = NoReq]
  /\ lastCall' = Resumed(reqs[s])
  /\ UNCHANGED <<isLoadingList, isUploading, isRecording, recordingUrl, recordedFile,
                 editingId, editingName, refs, db, nPosts, sessions, liveStreams,
                 liveUrls, supported, recorderMime, mounted>>

\* uploadFile up to its await: validate, then setIsUploading(true),
\* setError(null) and the POST. capFile and capUrl are recordedFile and
\* recordingUrl of the render whose handler made the call: the continuation
\* after the awaits still reads those.
uploadFile(file) ==
  /\ UserStep
  /\ lastCall' = [NoCall EXCEPT !.op = "uploadFile", !.file = file]
  /\ IF ~isValidAudioFile(file).ok
     THEN /\ error' = isValidAudioFile(file).message
          /\ UNCHANGED <<isUploading, reqs>>
     ELSE /\ HasFreeSlot
          /\ isUploading' = TRUE
          /\ error' = Nil
          /\ reqs' = Fetch([NoReq EXCEPT !.kind = "POST", !.st = "sent", !.file = file,
                                         !.capFile = recordedFile, !.capUrl = recordingUrl])
  /\ UNCHANGED <<uploads, isLoadingList, isRecording, recordingUrl, recordedFile,
                 deletingId, editingId, editingName, refs, db, nPosts, sessions,
                 liveStreams, liveUrls, supported, recorderMime, mounted>>

\* The file input, disabled while isUploading.
PickFile(file) ==
  /\ ~isUploading
  /\ uploadFile(file)

\* canUploadRecorded without its test of isUploading.
canUploadRecordedWhileUploading == recordedFile # NullFile

\* canUploadRecorded
canUploadRecorded == recordedFile # NullFile /\ ~isUploading

\* The "Upload recording" button.
ClickUploadRecording ==
  /\ canUploadRecorded
  /\ uploadFile(recordedFile)

\* updateName up to its await, without the test of the trimmed text.
updateNameUnguarded(id, newName) ==
  /\ UserStep
  /\ lastCall' = [NoCall EXCEPT !.op = "updateName", !.id = id, !.name = newName]
  /\ HasFreeSlot
  /\ error' = Nil
  /\ reqs' = Fetch([NoReq EXCEPT !.kind = "PATCH", !.st = "sent", !.id = id,
                                 !.name = trim(newName), !.typed = newName])
  /\ UNCHANGED <<uploads, isLoadingList, isUploading, isRecording, recordingUrl,
                 recordedFile, deletingId, editingId, editingName, refs, db, nPosts,
                 sessions, liveStreams, liveUrls, supported, recorderMime, mounted>>

\* updateName up to its await: return on an empty trimmed text, else
\* setError(null) and the PATCH with the trimmed text.
updateName(id, newName) ==
  /\ UserStep
  /\ lastCall' = [NoCall EXCEPT !.op = "updateName", !.id = id, !.name = newName]
  /\ IF trim(newName) = <<>>
     THEN UNCHANGED <<error, reqs>>
     ELSE /\ HasFreeSlot
          /\ error' = Nil
          /\ reqs' = Fetch([NoReq EXCEPT !.kind = "PATCH", !.st = "sent", !.id = id,
                                         !.name = trim(newName), !.typed = newName])
  /\ UNCHANGED <<uploads, isLoadingList, isUploading, isRecording, recordingUrl,
                 recordedFile, deletingId, editingId, editingName, refs, db, nPosts,
                 sessions, liveStreams, liveUrls, supported, recorderMime, mounted>>

\* startEdit, from the name button of a row that is not being edited.
startEdit(i) ==
  /\ UserStep
  /\ RowsShown
  /\ i \in 1..Len(uploads)
  /\ editingId # uploads[i]._id
  /\ editingId' = uploads[i]._id
  /\ editingName' = uploads[i].originalName
  /\ lastCall' = NoCall
  /\ UNCHANGED <<uploads, isLoadingList, isUploading, error, isRecording, recordingUrl,
                 recordedFile, deletingId, refs, env>>

\* cancelEdit
cancelEdit ==
  /\ UserStep
  /\ editingId' = Nil
  /\ editingName' = <<>>
  /\ lastCall' = NoCall
  /\ UNCHANGED <<uploads, isLoadingList, isUploading, error, isRecording, recordingUrl,
                 recordedFile, deletingId, refs, env>>

EditShown == editingId # Nil /\ RowShown(editingId)

\* onChange of the rename input.
ChangeName(text) ==
  /\ UserStep
  /\ EditShown
  /\ editingName # text
  /\ editingName' = text
  /\ lastCall' = NoCall
  /\ UNCHANGED <<uploads, isLoadingList, isUploading, error, isRecording, recordingUrl,
                 recordedFile, deletingId, editingId, refs, env>>

\* onKeyDown Enter in the rename input.
KeyEnter == EditShown /\ updateName(editingId, editingName)

\* The Save button of the rename form.
ClickSave == EditShown /\ updateName(editingId, editingName)

\* onKeyDown Escape, or the Cancel button.
ClickCancel == EditShown /\ cancelEdit

\* onBlur of the rename input.
Blur ==
  /\ EditShown
  /\ IF trim(editingName) # <<>> THEN updateName(editingId, editingName) ELSE cancelEdit

\* deleteUpload up to its await, from the Delete button of a row; the button
\* is disabled for the one row whose id is deletingId.
ClickDelete(id) ==
  /\ UserStep
  /\ RowShown(id)
  /\ deletingId # id
  /\ HasFreeSlot
  /\ deletingId' = id
  /\ error' = Nil
  /\ reqs' = Fetch([NoReq EXCEPT !.kind = "DELETE", !.st = "sent", !.id = id])
  /\ lastCall' = NoCall
  /\ UNCHANGED <<uploads, isLoadingList, isUploading, isRecording, recordingUrl,
                 recordedFile, editingId, editingName, refs, db, nPosts, sessions,
                 liveStreams, liveUrls, supported, recorderMime, mounted>>

\* The Dismiss button of the error banner.
Dismiss ==
  /\ UserStep
  /\ error # Nil
  /\ error' = Nil
  /\ lastCall' = NoCall
  /\ UNCHANGED <<uploads, isLoadingList, isUploading, isRecording, recordingUrl,
                 recordedFile, deletingId, editingId, editingName, refs, env>>

\* ------------------------------------------------------------------ recorder
UnsupportedMessage == "Recording not supported. Try Chrome or Firefox."
MicrophoneMessage == "Permission denied"

Ogg == <<"o","g","g">>
Wav == <<"w","a","v">>
Webm == <<"w","e","b","m">>

\* recorder.mimeType || 'audio/webm'
BlobType(mime) == IF mime = <<>> THEN AudioWebm ELSE mime

\* blob.type.includes('ogg') ? 'ogg' : blob.type.includes('wav') ? 'wav' : 'webm'
Extension(type) ==
  IF includes(type, Ogg) THEN Ogg ELSE IF includes(type, Wav) THEN Wav ELSE Webm

\* new File([blob], `recording-${Date.now()}.${ext}`, { type: blob.type }); the
\* File made by session k has the identity k, and a chunk counts one byte.
RecordedFile(k, chunks, mime) ==
  [fid |-> k, type |-> BlobType(mime), size |-> Len(chunks),
   name |-> <<"r", ".">> \o Extension(BlobType(mime)), content |-> chunks]

HasFreeSession == \E k \in SessionIds : sessions[k].st = "none"
FreeSession ==
  LET i == CHOOSE i \in 1..MaxSessions :
             /\ sessions[SessionNames[i]].st = "none"
             /\ \A j \in 1..MaxSessions : sessions[SessionNames[j]].st = "none" => i <= j
  IN SessionNames[i]

\* The "Start recording" button (shown while ~isRecording): startRecording up
\* to its await of getUserMedia. The onstop handler it will install keeps this
\* render's recordingUrl.
ClickStart ==
  /\ BrowserStep
  /\ mounted
  /\ ~isRecording
  /\ error' = IF supported THEN Nil ELSE UnsupportedMessage
  /\ recordedFile' = NullFile
  /\ recordingUrl' = Nil
  /\ liveUrls' = CleanupUrls(Revoke(liveUrls, recordingUrl), recordingUrl, Nil)
  /\ liveStreams' = CleanupStreams(liveStreams, recordingUrl, Nil, streamRef)
  /\ IF supported
     THEN /\ HasFreeSession
          /\ sessions' = [sessions EXCEPT ![FreeSession] =
                            [NoSession EXCEPT !.st = "asking", !.capUrl = recordingUrl]]
     ELSE UNCHANGED sessions
  /\ lastCall' = NoCall
  /\ UNCHANGED <<uploads, isLoadingList, isUploading, isRecording, deletingId,
                 editingId, editingName, refs, reqs, db, nPosts, supported, recorderMime, mounted>>

\* getUserMedia resolves: lines 180-198.
GrantMic(k) ==
  /\ BrowserStep
  /\ sessions[k].st = "asking"
  /\ streamRef' = k
  /\ liveStreams' = liveStreams \cup {k}
  /\ chunksRef' = <<>>
  /\ mediaRecorderRef' = k
  /\ sessions' = [sessions EXCEPT ![k].st = "recording"]
  /\ isRecording' = (IF mounted THEN TRUE ELSE isRecording)
  /\ lastCall' = NoCall
  /\ UNCHANGED <<uploads, isLoadingList, isUploading, error, recordingUrl, recordedFile,
                 deletingId, editingId, editingName, reqs, db, nPosts, liveUrls,
                 supported, recorderMime, mounted>>

\* getUserMedia rejects: the catch block.
DenyMic(k) ==
  /\ BrowserStep
  /\ sessions[k].st = "asking"
  /\ sessions' = [sessions EXCEPT ![k].st = "failed"]
  /\ error' = (IF mounted THEN MicrophoneMessage ELSE error)
  /\ lastCall' = NoCall
  /\ UNCHANGED <<uploads, isLoadingList, isUploading, isRecording, recordingUrl,
                 recordedFile, deletingId, editingId, editingName, refs, reqs, db,
                 nPosts, liveStreams, liveUrls, supported, recorderMime, mounted>>

\* recorder.ondataavailable of recorder k: a chunk of ev.data.size bytes, kept
\* when it is not empty, in whatever array chunksRef holds now. The recorder
\* fires it while it records and once more when it is stopped. The j-th chunk
\* recorder k delivers is <<k, j>>.
DataAvailable(k, size) ==
  /\ BrowserStep
  /\ sessions[k].st \in {"recording", "stopping", "ending"}
  /\ Len(sessions[k].got) < MaxChunks
  /\ LET chunk == <<k, Len(sessions[k].got) + 1>>
     IN IF size > 0
        THEN /\ chunksRef' = Append(chunksRef, chunk)
             /\ sessions' = [sessions EXCEPT ![k].got = Append(@, chunk)]
        ELSE UNCHANGED <<chunksRef, sessions>>
  /\ lastCall' = NoCall
  /\ UNCHANGED <<ctl, mediaRecorderRef, streamRef, reqs, db, nPosts, liveStreams,
                 liveUrls, supported, recorderMime, mounted>>

\* The "Stop" button (shown while isRecording): stopRecording. recorder.stop()
\* makes the recorder inactive at once and queues its last dataavailable and
\* its stop event.
ClickStop ==
  /\ BrowserStep
  /\ mounted
  /\ isRecording
  /\ sessions' = IF mediaRecorderRef # Nil /\ sessions[mediaRecorderRef].st = "recording"
                 THEN [sessions EXCEPT ![mediaRecorderRef].st = "stopping"]
                 ELSE sessions
  /\ isRecording' = FALSE
  /\ liveStreams' = StopTracks(liveStreams, streamRef)
  /\ streamRef' = Nil
  /\ lastCall' = NoCall
  /\ UNCHANGED <<uploads, isLoadingList, isUploading, error, recordingUrl, recordedFile,
                 deletingId, editingId, editingName, mediaRecorderRef, chunksRef, reqs,
                 db, nPosts, liveUrls, supported, recorderMime, mounted>>

\* A recorder whose stream has no live track left stops by itself.
TracksEnded(k) ==
  /\ BrowserStep
  /\ sessions[k].st = "recording"
  /\ k \notin liveStreams
  /\ sessions' = [sessions EXCEPT ![k].st = "ending"]
  /\ lastCall' = NoCall
  /\ UNCHANGED <<ctl, refs, reqs, db, nPosts, liveStreams, liveUrls, supported,
                 recorderMime, mounted>>

\* recorder.onstop of recorder k, lines 187-196: the blob of the chunks that
\* chunksRef holds now, a new object URL (named k) and a new File. After the
\* component was unmounted the URL is still created, the two setState calls
\* do nothing and no effect cleanup follows.
OnStop(k) ==
  /\ BrowserStep
  /\ sessions[k].st \in {"stopping", "ending"}
  /\ sessions' = [sessions EXCEPT ![k].st = "inactive"]
  /\ IF mounted
     THEN /\ recordingUrl' = k
          /\ recordedFile' = RecordedFile(k, chunksRef, recorderMime)
          /\ liveUrls' = CleanupUrls(Revoke(liveUrls, sessions[k].capUrl) \cup {k},
                                     recordingUrl, k)
          /\ liveStreams' = CleanupStreams(liveStreams, recordingUrl, k, streamRef)
     ELSE /\ liveUrls' = Revoke(liveUrls, sessions[k].capUrl) \cup {k}
          /\ UNCHANGED <<recordingUrl, recordedFile, liveStreams>>
  /\ lastCall' = NoCall
  /\ UNCHANGED <<uploads, isLoadingList, isUploading, error, isRecording, deletingId,
                 editingId, editingName, refs, reqs, db, nPosts, supported, recorderMime, mounted>>

\* The component is unmounted: React runs the cleanup of the last
\* useEffect(..., [recordingUrl]), lines 218-223. Nothing is rendered any
\* more, and React drops the state updates of handlers that resume later;
\* the model does not follow their requests further. Recorders and pending
\* getUserMedia calls live on.
Unmount ==
  /\ BrowserStep
  /\ mounted
  /\ mounted' = FALSE
  /\ liveUrls' = Revoke(liveUrls, recordingUrl)
  /\ liveStreams' = StopTracks(liveStreams, streamRef)
  /\ lastCall' = NoCall
  /\ UNCHANGED <<ctl, refs, reqs, db, nPosts, sessions, supported, recorderMime>>

\* ----------------------------------------------------------- specifications
Backend ==
  \E s \in Slots : ServeFails(s) \/ ServeGet(s) \/ ServePost(s) \/ ServePatch(s) \/ ServeDelete(s)

Responses ==
  \E s \in Slots : GetResponse(s) \/ PostResponse(s) \/ PatchResponse(s) \/ DeleteResponse(s)

ListUser ==
  \/ ClickRefresh
  \/ \E f \in PickedFiles : PickFile(f)
  \/ \E i \in Rows : startEdit(i)
  \/ \E t \in TypedNames : ChangeName(t)
  \/ KeyEnter
  \/ ClickSave
  \/ ClickCancel
  \/ Blur
  \/ \E id \in RecordIds : ClickDelete(id)
  \/ Dismiss

Recorder ==
  \/ ClickStart
  \/ \E k \in SessionIds : GrantMic(k) \/ DenyMic(k) \/ TracksEnded(k) \/ OnStop(k)
  \/ \E k \in SessionIds, size \in {0, 1} : DataAvailable(k, size)
  \/ ClickStop
  \/ ClickUploadRecording

Next == Backend \/ Responses \/ ListUser \/ Recorder \/ Unmount

Spec == Init /\ [][Next]_vars

\* The list controller alone: this browser never records.
InitList == Init /\ supported /\ recorderMime = <<>>
NextList == Backend \/ Responses \/ ListUser
SpecList == InitList /\ [][NextList]_vars

\* The recorder and the uploads: no row is renamed or deleted.
NextRec ==
  \/ Recorder
  \/ \E f \in PickedFiles : PickFile(f)
  \/ \E s \in Slots : ServeFails(s) \/ ServeGet(s) \/ ServePost(s)
  \/ \E s \in Slots : GetResponse(s) \/ PostResponse(s)
\* The page has loaded its list; the browser may lack MediaRecorder.
InitRec ==
  /\ uploads = InitialCollection
  /\ isLoadingList = FALSE
  /\ isUploading = FALSE
  /\ error = Nil
  /\ isRecording = FALSE
  /\ recordingUrl = Nil
  /\ recordedFile = NullFile
  /\ deletingId = Nil
  /\ editingId = Nil
  /\ editingName = <<>>
  /\ mediaRecorderRef = Nil
  /\ chunksRef = <<>>
  /\ streamRef = Nil
  /\ reqs = [s \in Slots |-> NoReq]
  /\ db = InitialCollection
  /\ nPosts = 0
  /\ nOps = 0
  /\ sessions = [k \in SessionIds |-> NoSession]
  /\ liveStreams = {}
  /\ liveUrls = {}
  /\ supported \in BOOLEAN
  /\ recorderMime \in RecorderMimeTypes
  /\ mounted = TRUE
  /\ lastCall = NoCall
SpecRec == InitRec /\ [][NextRec]_vars


\* The recording panel alone, up to and beyond the teardown of the component.
NextTeardown ==
  \/ ClickStart
  \/ \E k \in SessionIds : GrantMic(k) \/ DenyMic(k) \/ TracksEnded(k) \/ OnStop(k)
  \/ \E k \in SessionIds, size \in {0, 1} : DataAvailable(k, size)
  \/ ClickStop
  \/ Unmount
SpecTeardown == InitRec /\ [][NextTeardown]_vars


\* One accepted, one oversized and one non-audio file to pick.
PickedFilesFew == {
  PickedFile(AudioWavUpper, MAX_FILE_SIZE_BYTES),
  PickedFile(AudioMpeg, MAX_FILE_SIZE_BYTES + 1),
  PickedFile(TextPlain, 1) }
\* Every operation that can fail: the list controller and one microphone
\* request that the browser rejects.
NextErrors ==
  \/ Backend
  \/ Responses
  \/ ClickRefresh
  \/ \E f \in PickedFilesFew : PickFile(f)
  \/ \E i \in Rows : startEdit(i)
  \/ KeyEnter
  \/ \E id \in RecordIds : ClickDelete(id)
  \/ Dismiss
  \/ (sessions = [k \in SessionIds |-> NoSession] /\ ClickStart)
  \/ \E k \in SessionIds : DenyMic(k)
SpecErrors == InitList /\ [][NextErrors]_vars

\* The two upload triggers with the recorder that feeds the second one, in a
\* browser that records: every recorder event but dataavailable, which does
\* not bear on what is uploaded when.
NextUploads ==
  \/ \E f \in PickedFilesFew : PickFile(f)
  \/ ClickUploadRecording
  \/ \E s \in Slots : ServeFails(s) \/ ServeGet(s) \/ ServePost(s)
  \/ \E s \in Slots : GetResponse(s) \/ PostResponse(s)
  \/ ClickStart
  \/ \E k \in SessionIds : GrantMic(k) \/ DenyMic(k) \/ TracksEnded(k) \/ OnStop(k)
  \/ ClickStop
InitUploads == InitRec /\ supported /\ recorderMime = <<>>
SpecUploads == InitUploads /\ [][NextUploads]_vars

\* ------------------------------------------------- the App of src/App.tsx
\* The repository's other App component: the same list and upload state, no
\* rename, no delete, and an uploadFile that sends whatever it is given.
LegacyFailureMessage(kind, res) ==
  CASE res = "throw" -> NetworkText
    [] kind = "GET" -> "Failed to fetch uploads (500)"
    [] kind = "POST" /\ res = "errBody" -> BackendText
    [] kind = "POST" /\ res = "errStatus" -> "Upload failed (500)"

\* uploadFile of src/App.tsx up to its await: setIsUploading(true),
\* setError(null) and the POST, for any file.
LegacyUploadFile(file) ==
  /\ UserStep
  /\ lastCall' = [NoCall EXCEPT !.op = "uploadFile", !.file = file]
  /\ HasFreeSlot
  /\ isUploading' = TRUE
  /\ error' = Nil
  /\ reqs' = Fetch([NoReq EXCEPT !.kind = "POST", !.st = "sent", !.file = file])
  /\ UNCHANGED <<uploads, isLoadingList, isRecording, recordingUrl, recordedFile,
                 deletingId, editingId, editingName, refs, db, nPosts, sessions,
                 liveStreams, liveUrls, supported, recorderMime, mounted>>

\* The file input of src/App.tsx, disabled while isUploading.
LegacyPickFile(file) ==
  /\ ~isUploading
  /\ LegacyUploadFile(file)

\* The Refresh button of src/App.tsx, never disabled.
LegacyClickRefresh ==
  /\ UserStep
  /\ HasFreeSlot
  /\ FetchUploadsStart(FreeSlot, [NoReq EXCEPT !.kind = "GET", !.st = "sent", !.owner = "ui"])
  /\ lastCall' = NoCall
  /\ UNCHANGED <<uploads, isUploading, isRecording, recordingUrl, recordedFile,
                 deletingId, editingId, editingName, refs, db, nPosts, sessions,
                 liveStreams, liveUrls, supported, recorderMime, mounted>>

\* The response of a list request in src/App.tsx: the rest of fetchUploads
\* and, when uploadFile awaits it, its finally block.
LegacyGetResponse(s) ==
  /\ BrowserStep
  /\ mounted
  /\ reqs[s].kind = "GET" /\ reqs[s].st = "served"
  /\ uploads' = IF reqs[s].res = "ok" THEN reqs[s].data ELSE uploads
  /\ error' = IF reqs[s].res = "ok" THEN error ELSE LegacyFailureMessage("GET", reqs[s].res)
  /\ isLoadingList' = FALSE
  /\ isUploading' = IF reqs[s].owner = "upload" THEN FALSE ELSE isUploading
  /\ reqs' = [reqs EXCEPT ![s] = NoReq]
  /\ lastCall' = Resumed(reqs[s])
  /\ UNCHANGED <<isRecording, recordingUrl, recordedFile, deletingId, editingId,
                 editingName, refs, db, nPosts, sessions, liveStreams, liveUrls,
                 supported, recorderMime, mounted>>

\* The response of the upload POST in src/App.tsx.
LegacyPostResponse(s) ==
  /\ BrowserStep
  /\ mounted
  /\ reqs[s].kind = "POST" /\ reqs[s].st = "served"
  /\ IF reqs[s].res = "ok"
     THEN /\ FetchUploadsStart(s, [reqs[s] EXCEPT !.kind = "GET", !.st = "sent",
                                                  !.owner = "upload", !.res = "none"])
          /\ UNCHANGED isUploading
     ELSE /\ error' = LegacyFailureMessage("POST", reqs[s].res)
          /\ isUploading' = FALSE
          /\ reqs' = [reqs EXCEPT ![s] = NoReq]
          /\ UNCHANGED isLoadingList
  /\ lastCall' = Resumed(reqs[s])
  /\ UNCHANGED <<uploads, isRecording, recordingUrl, recordedFile, deletingId,
                 editingId, editingName, refs, db, nPosts, sessions, liveStreams,
                 liveUrls, supported, recorderMime, mounted>>

NextLegacy ==
  \/ \E f \in PickedFiles : LegacyPickFile(f)
  \/ LegacyClickRefresh
  \/ \E s \in Slots : ServeFails(s) \/ ServeGet(s) \/ ServePost(s)
  \/ \E s \in Slots : LegacyGetResponse(s) \/ LegacyPostResponse(s)
SpecLegacy == InitList /\ [][NextLegacy]_vars

\* ------------------------------------------------------------------- claims
\* The response of request s, of the given kind and outcome, is handled in
\* this step.
Completes(s, kind, res) ==
  /\ reqs[s].kind = kind
  /\ reqs[s].st = "served"
  /\ reqs[s].res = res
  /\ reqs'[s] # reqs[s]

\* The step calls uploadFile.
CallsUploadFile == lastCall'.op = "uploadFile"

\* The subtype tokens the contract names.
KnownAudioTokens == {
  <<"w","e","b","m">>, <<"m","p","3">>, <<"m","p","e","g">>, <<"w","a","v">>,
  <<"o","g","g">>, <<"m","p","4">>, <<"x","-","w","a","v">>, <<"f","l","a","c">> }

\* The reported type, lowercased, starts with audio/ or contains a known token.
ReportsAudio(type) ==
  \/ startsWith(toLowerCase(type), <<"a","u","d","i","o","/">>)
  \/ \E t \in KnownAudioTokens : includes(toLowerCase(type), t)

Requests(kind) == {s \in Slots : reqs[s].kind = kind}
RequestsAfter(kind) == {s \in Slots : reqs'[s].kind = kind}

\* C1: a file whose reported type is not an audio type is rejected by upload
\* locally: the banner gets the type message, no request of any kind is
\* issued, and isUploading and the list stay as they were.
C1_NonAudioRejectedLocally ==
  [][ (CallsUploadFile /\ ~ReportsAudio(lastCall'.file.type))
      => /\ error' = InvalidTypeMessage
         /\ reqs' = reqs
         /\ isUploading' = isUploading
         /\ uploads' = uploads ]_vars

\* C2, as stated: every file larger than 25 MB, of any reported type, is
\* rejected locally with the size message, and no POST is issued.
C2_OversizedGetsSizeMessage ==
  [][ (CallsUploadFile /\ lastCall'.file.size > 25 * 1024 * 1024)
      => /\ error' = TooLargeMessage
         /\ RequestsAfter("POST") = Requests("POST") ]_vars

\* C2, amended: every file larger than 25 MB is rejected locally and no
\* request is issued; the banner gets the size message that names the 25 MB
\* ceiling when the reported type is an audio type, and the type message
\* otherwise.
C2_OversizedRejectedLocally ==
  [][ (CallsUploadFile /\ lastCall'.file.size > 25 * 1024 * 1024)
      => /\ error' = IF ReportsAudio(lastCall'.file.type)
                     THEN TooLargeMessage ELSE InvalidTypeMessage
         /\ reqs' = reqs
         /\ isUploading' = isUploading ]_vars

\* An oversized audio file has just been rejected with the size message.
C2_Witness ==
  /\ lastCall.op = "uploadFile"
  /\ lastCall.file.size > 25 * 1024 * 1024
  /\ ReportsAudio(lastCall.file.type)
  /\ error = TooLargeMessage
  /\ \A s \in Slots : reqs[s].kind # "POST"

\* An upload is between its accepted call and its last step: its POST or the
\* list request it awaits is in flight.
UploadInFlight ==
  \E s \in Slots : reqs[s].kind = "POST" \/ (reqs[s].kind = "GET" /\ reqs[s].owner = "upload")
UploadInFlightAfter ==
  \E s \in Slots : reqs'[s].kind = "POST" \/ (reqs'[s].kind = "GET" /\ reqs'[s].owner = "upload")

\* The list request that uploadFile awaits completes in this step.
UploadListCompletes(s, res) == Completes(s, "GET", res) /\ reqs[s].owner = "upload"

\* What C3 says of the POST and of the time in between: a successful POST
\* starts exactly one list request, and isUploading stays set while the
\* upload is in flight and drops when its list request completes.
UploadAwaitsItsList ==
  /\ \A s \in Slots : Completes(s, "POST", "ok") =>
       /\ Cardinality(RequestsAfter("GET")) = Cardinality(Requests("GET")) + 1
       /\ reqs'[s].kind = "GET" /\ reqs'[s].st = "sent"
  /\ UploadInFlightAfter => isUploading'
  /\ \A s \in Slots, res \in {"ok"} \cup Failures :
       UploadListCompletes(s, res) => ~isUploading'

\* C3, as stated: after a successful POST exactly one list request is issued,
\* isUploading stays set until it completes, and when it succeeds the list
\* holds the new record at the moment isUploading drops.
C3_ListHoldsNewRecord ==
  [][ /\ UploadAwaitsItsList
      /\ \A s \in Slots : UploadListCompletes(s, "ok") =>
           reqs[s].newId \in Ids(uploads') ]_vars

\* C3, amended: ... and when it succeeds the list is the collection the
\* backend returned for it, which holds the new record unless a remove of
\* that record had reached the backend before the list request was served.
C3_ListHoldsNewRecordUnlessRemoved ==
  [][ /\ UploadAwaitsItsList
      /\ \A s \in Slots : UploadListCompletes(s, "ok") =>
           /\ uploads' = reqs[s].data
           /\ reqs[s].newId \in Ids(uploads') \/ reqs[s].newId \notin Ids(db) ]_vars

\* An upload has just finished with its list request, and the list holds the
\* record the backend stored for it.
C3_Witness ==
  /\ lastCall.op = "GET" /\ lastCall.res = "ok" /\ lastCall.file # NullFile
  /\ ~isUploading
  /\ ~UploadInFlight
  /\ nPosts = 1
  /\ IdNames[Len(InitialCollection) + 1] \in Ids(uploads)

\* The text is empty or whitespace only.
IsBlank(text) == \A i \in 1..Len(text) : text[i] \in {" ", "\t"}

\* C4: rename with an empty or whitespace-only name changes nothing and sends
\* nothing, in every state.
C4_BlankRenameIsNoOp ==
  [][ (lastCall'.op = "updateName" /\ IsBlank(lastCall'.name))
      => UNCHANGED <<ctl, refs, env>> ]_vars

\* Save or Enter has just been pressed on a whitespace-only name.
C4_Witness ==
  /\ lastCall.op = "updateName"
  /\ IsBlank(lastCall.name)
  /\ Len(lastCall.name) > 0
  /\ editingId = lastCall.id

\* The list new is the list old with the name of the record id set to name:
\* same length, same order, nothing else touched.
OnlyNameOf(new, old, id, name) ==
  /\ Len(new) = Len(old)
  /\ \A i \in 1..Len(old) :
       IF old[i]._id = id
       THEN /\ new[i].originalName = name
            /\ new[i]._id = old[i]._id
            /\ new[i].size = old[i].size
       ELSE new[i] = old[i]

\* C5, as stated: after a successful rename(id, X) the record id is named X,
\* nothing else of the list changes, and no list request is made.
C5_RenamedToTheTextGiven ==
  [][ \A s \in Slots : Completes(s, "PATCH", "ok") =>
        /\ OnlyNameOf(uploads', uploads, reqs[s].id, reqs[s].typed)
        /\ RequestsAfter("GET") = Requests("GET") ]_vars

\* C5, amended: after a successful rename(id, X) the record id is named X
\* with the whitespace at its ends removed, ...
C5_RenamedToTheTrimmedText ==
  [][ \A s \in Slots : Completes(s, "PATCH", "ok") =>
        /\ OnlyNameOf(uploads', uploads, reqs[s].id, trim(reqs[s].typed))
        /\ RequestsAfter("GET") = Requests("GET") ]_vars

\* A rename has just succeeded and its row shows the new name.
C5_Witness ==
  /\ lastCall.op = "PATCH" /\ lastCall.res = "ok"
  /\ \E i \in 1..Len(uploads) :
       /\ uploads[i]._id = lastCall.id
       /\ uploads[i].originalName = <<"b">>
  /\ Len(uploads) > 1

\* The list new is the list old without its record id, the others in place.
RemovedFrom(new, old, id) ==
  IF id \in Ids(old)
  THEN \E i \in 1..Len(old) :
         /\ old[i]._id = id
         /\ new = SubSeq(old, 1, i - 1) \o SubSeq(old, i + 1, Len(old))
  ELSE new = old

\* C6, as stated: after a successful remove(id) no record id is left, the
\* list is shorter by exactly one, the others are in place.
C6_RemovedAndOneShorter ==
  [][ \A s \in Slots : Completes(s, "DELETE", "ok") =>
        /\ reqs[s].id \notin Ids(uploads')
        /\ Len(uploads') = Len(uploads) - 1
        /\ RemovedFrom(uploads', uploads, reqs[s].id) ]_vars

\* C6, amended: after a successful remove(id) no record id is left and the
\* others are in place; the list is shorter by exactly one when it still held
\* the record as the response arrived, and as long as before when a list
\* response had already dropped it.
C6_RemovedAndOthersInPlace ==
  [][ \A s \in Slots : Completes(s, "DELETE", "ok") =>
        /\ reqs[s].id \notin Ids(uploads')
        /\ Len(uploads') = Len(uploads) - (IF reqs[s].id \in Ids(uploads) THEN 1 ELSE 0)
        /\ RemovedFrom(uploads', uploads, reqs[s].id) ]_vars

\* A remove has just succeeded and taken its row out of a list that keeps
\* another row.
C6_Witness ==
  /\ lastCall.op = "DELETE" /\ lastCall.res = "ok"
  /\ lastCall.id \notin Ids(uploads)
  /\ Len(uploads) = Len(InitialCollection) - 1
  /\ Ids(uploads) \subseteq Ids(InitialCollection)

\* C7: a successful list() makes the list exactly what the backend returned,
\* which is the backend's collection, in its order, as the request was served.
C7_ListReplacedWholesale ==
  [][ /\ \A s \in Slots : Completes(s, "GET", "ok") => uploads' = reqs[s].data
      /\ \A s \in Slots :
           (reqs[s].kind = "GET" /\ reqs[s].st = "sent" /\ reqs'[s].st = "served"
              /\ reqs'[s].res = "ok") => reqs'[s].data = db ]_vars

\* A list response has just replaced a list that held a record the response
\* does not hold.
C7_Witness ==
  /\ lastCall.op = "GET" /\ lastCall.res = "ok"
  /\ uploads = db
  /\ Len(uploads) = 1
  /\ nPosts = 0
  /\ \A s \in Slots : reqs[s].kind = "none"

\* C8: a failed list, upload, rename or remove leaves the list as it was and
\* sets the banner; a failed rename also leaves the edit form as it was.
C8_FailureKeepsList ==
  [][ \A s \in Slots, kind \in {"GET", "POST", "PATCH", "DELETE"}, res \in Failures :
        Completes(s, kind, res) =>
          /\ uploads' = uploads
          /\ error' # Nil
          /\ kind = "PATCH" => (editingId' = editingId /\ editingName' = editingName) ]_vars

\* A rename has just failed: the banner is set and the form is still open on
\* the text that was sent.
C8_Witness ==
  /\ lastCall.op = "PATCH" /\ lastCall.res \in Failures
  /\ error # Nil
  /\ editingId = lastCall.id
  /\ trim(editingName) = lastCall.name
  /\ Len(uploads) > 0

\* ------------------------------------------------------ claims on recording
\* C9: when the upload of a file succeeds and uploadFile resumes after its
\* list request, the preview and the pending recorded file are cleared if the
\* uploaded file is the recording that is pending now, and are left as they
\* are if it is any other file (a picked file, a superseded recording).
C9_PreviewClearedIffCurrent ==
  [][ \A s \in Slots, res \in {"ok"} \cup Failures :
        UploadListCompletes(s, res) =>
          IF recordedFile # NullFile /\ reqs[s].file = recordedFile
          THEN recordingUrl' = Nil /\ recordedFile' = NullFile
          ELSE UNCHANGED <<recordingUrl, recordedFile>> ]_vars

\* Recorder k, stopped by stopRecording, fires its stop event in this step.
StopEventOf(k) == sessions[k].st = "stopping" /\ sessions'[k].st = "inactive"

\* C10: a session that was started and then stopped ends idle with one
\* pending file that holds the non-empty chunks of that session in arrival
\* order and nothing else (no chunk: an empty file), and raises no error.
C10_FileHoldsTheSessionsChunks ==
  [][ \A k \in SessionIds : StopEventOf(k) =>
        /\ ~isRecording'
        /\ recordedFile' # NullFile
        /\ recordedFile'.fid = k
        /\ recordedFile'.content = sessions[k].got
        /\ error' = error ]_vars

\* ------------------------------------------------- claims on the controls
\* A delete request for record id is in flight: sent and not yet answered to
\* deleteUpload.
DeletesInFlight(id) == {s \in Slots : reqs[s].kind = "DELETE" /\ reqs[s].id = id}

\* C11: all the time a delete request for record id is in flight, deletingId
\* is id (that row's Delete button is disabled) and no second delete request
\* for id is in flight, also when deletes of different rows interleave.
C11_DeleteDisabledWhileInFlight ==
  \A id \in RecordIds :
    DeletesInFlight(id) # {} =>
      /\ deletingId = id
      /\ Cardinality(DeletesInFlight(id)) = 1

\* The requests of uploads in flight: a POST, or the list request that
\* uploadFile awaits after it.
UploadsInFlight ==
  {s \in Slots : reqs[s].kind = "POST" \/ (reqs[s].kind = "GET" /\ reqs[s].owner = "upload")}

\* C12: at most one upload is in flight at any time; from its accepted start
\* to the end of its list refresh isUploading is set, which disables the file
\* picker and the Upload recording button, so that a POST is only ever issued
\* when no upload is in flight; and a POST in flight is never dropped: it
\* leaves only by being served and answered.
C12_OneUploadAtATime ==
  /\ [](/\ Cardinality(UploadsInFlight) <= 1
        /\ UploadsInFlight # {} => (isUploading /\ ~canUploadRecorded))
  /\ [][ /\ RequestsAfter("POST") # Requests("POST") /\ RequestsAfter("POST") # {}
              => (~isUploading /\ UploadsInFlight = {})
         /\ \A s \in Slots :
              (reqs[s].kind = "POST" /\ reqs[s].st = "sent" /\ reqs'[s] # reqs[s])
                => (reqs'[s].kind = "POST" /\ reqs'[s].st = "served"
                      /\ reqs'[s].file = reqs[s].file) ]_vars

\* The upload of a recording is in flight and the recording is still
\* pending: only isUploading keeps the Upload recording button disabled.
C12_Witness ==
  /\ \E s \in Slots : reqs[s].kind = "POST" /\ reqs[s].file = recordedFile
  /\ recordedFile # NullFile
  /\ isUploading
  /\ ~canUploadRecorded

\* ------------------------------------------------ claims on the resources
\* The step is stopRecording: nothing else clears isRecording.
StopRecordingRuns == isRecording /\ ~isRecording'

\* C13: after stopRecording has run, no microphone stream that a
\* startRecording acquired before it is live, and the stream reference is
\* cleared, for any sequence of start and stop clicks.
C13_StopReleasesTheMicrophone ==
  [][ StopRecordingRuns => (liveStreams' = {} /\ streamRef' = Nil) ]_vars

\* Recorder k fires its stop event in this step, whoever stopped it.
StopEvent(k) == sessions[k].st \in {"stopping", "ending"} /\ sessions'[k].st = "inactive"

\* The preview references that are unreleased when recorder.onstop reaches
\* URL.createObjectURL (line 192), after its revoke of line 190.
UnreleasedAtCreation(k) == Revoke(liveUrls, sessions[k].capUrl)

\* C14: at every moment at most one preview reference is unreleased; a
\* previous one is released before a new one is created; none but the
\* current preview's is unreleased while the component is mounted, and none
\* at all after its teardown.
C14_OnePreviewReference ==
  /\ [](/\ Cardinality(liveUrls) <= 1
        /\ mounted => liveUrls \subseteq {recordingUrl}
        /\ ~mounted => liveUrls = {})
  /\ [][ \A k \in SessionIds : StopEvent(k) => UnreleasedAtCreation(k) = {} ]_vars

\* ------------------------------------------------ claims on the banner
\* The generic message of a failed operation, with the status code.
StatusMessage(kind) ==
  CASE kind = "GET" -> "Failed to fetch (500)"
    [] kind = "POST" -> "Upload failed (500)"
    [] kind = "PATCH" -> "Update failed (500)"
    [] kind = "DELETE" -> "Delete failed (500)"

\* The microphone request of session k is rejected in this step.
MicFails(k) == sessions[k].st = "asking" /\ sessions'[k].st = "failed"

\* The step is the Dismiss button: only the banner changes.
Dismissed ==
  /\ error' = Nil
  /\ UNCHANGED <<uploads, isLoadingList, isUploading, isRecording, recordingUrl,
                 recordedFile, deletingId, editingId, editingName, refs, env>>

\* An operation starts: uploadFile is called, a request is issued, or the
\* microphone is asked for.
OperationStarts ==
  \/ CallsUploadFile
  \/ \E s \in Slots : reqs'[s].kind \notin {"none", reqs[s].kind}
  \/ \E k \in SessionIds : sessions[k].st = "none" /\ sessions'[k].st = "asking"

OperationFails ==
  \/ \E s \in Slots, kind \in {"GET", "POST", "PATCH", "DELETE"}, res \in Failures :
       Completes(s, kind, res)
  \/ \E k \in SessionIds : MicFails(k)

\* What C15 says beside the text of the message: a failed operation issues no
\* request (no retry) and leaves its controls usable, and a banner changes
\* only when it is dismissed, when an operation starts or when one fails.
FailuresAreNotFatal ==
  /\ \A s \in Slots, kind \in {"GET", "POST", "PATCH", "DELETE"}, res \in Failures :
       Completes(s, kind, res) =>
         /\ reqs' = [reqs EXCEPT ![s] = NoReq]
         /\ kind = "GET" => ~isLoadingList'
         /\ (kind = "POST" \/ reqs[s].owner = "upload") => ~isUploading'
         /\ kind = "DELETE" => deletingId' = Nil
  /\ \A k \in SessionIds : MicFails(k) =>
       (error' = MicrophoneMessage /\ ~isRecording' /\ reqs' = reqs)
  /\ (error # Nil /\ error' # error) => (Dismissed \/ OperationStarts \/ OperationFails)

\* C15, as stated: right after an operation fails the banner holds the
\* backend's error text when the response carried one and the generic
\* status-coded message otherwise; failures are not fatal, are not retried,
\* and the banner stays until it is dismissed or an operation starts or fails.
C15_BackendTextOrStatusMessage ==
  [][ /\ \A s \in Slots, kind \in {"GET", "POST", "PATCH", "DELETE"}, res \in Failures :
           Completes(s, kind, res) =>
             error' = IF res = "errBody" THEN BackendText ELSE StatusMessage(kind)
      /\ FailuresAreNotFatal ]_vars

\* C15, amended: ... the banner holds the backend's error text when the
\* response carried one, the generic status-coded message when a response
\* came without one, and the message of the thrown error when no response
\* came at all; a rejected microphone request leaves the browser's message.
C15_BackendTextStatusOrThrownMessage ==
  [][ /\ \A s \in Slots, kind \in {"GET", "POST", "PATCH", "DELETE"}, res \in Failures :
           Completes(s, kind, res) =>
             error' = CASE res = "errBody" -> BackendText
                        [] res = "errStatus" -> StatusMessage(kind)
                        [] res = "throw" -> NetworkText
      /\ FailuresAreNotFatal ]_vars

\* A rename has just failed with the backend's text, which replaced the
\* banner's previous message; the form is open and the row can be deleted.
C15_Witness ==
  /\ lastCall.op = "PATCH" /\ lastCall.res = "errBody"
  /\ error = BackendText
  /\ editingId = lastCall.id
  /\ deletingId = Nil
  /\ \A s \in Slots : reqs[s].kind = "none"

\* ------------------------------------------- claims on stale list responses
\* The record of a list with the given id.
RecordOf(list, id) == list[CHOOSE i \in 1..Len(list) : list[i]._id = id]

\* No request that changes record id is in flight.
Settled(id) ==
  \A s \in Slots : reqs[s].kind \in {"PATCH", "DELETE"} => reqs[s].id # id

\* The remove of record id has succeeded and has been applied: the backend
\* holds no such record, the list shows none, and its request is answered.
RemoveApplied(id) ==
  /\ id \in {IdNames[i] : i \in 1..(Len(InitialCollection) + nPosts)}
  /\ id \notin Ids(db)
  /\ id \notin Ids(uploads)
  /\ Settled(id)

\* The rename of record id has been applied: the list shows the name the
\* backend holds, and no request on the record is in flight.
RenameApplied(id) ==
  /\ id \in Ids(db) /\ id \in Ids(uploads)
  /\ RecordOf(uploads, id).originalName = RecordOf(db, id).originalName
  /\ Settled(id)

\* C16: the response of a list request never brings back a record whose
\* remove has been applied, and never replaces a name that a rename has
\* applied by another one.
C16_ListResponseNeverUndoes ==
  [][ \A s \in Slots : Completes(s, "GET", "ok") =>
        \A id \in RecordIds :
          /\ RemoveApplied(id) => id \notin Ids(uploads')
          /\ (RenameApplied(id) /\ id \in Ids(uploads')) =>
               RecordOf(uploads', id).originalName = RecordOf(uploads, id).originalName ]_vars

====
